---- MODULE Spec2Model ----
(***************************************************************************)
(* LangChain_Gemini_Pinecone_Project_Explained.ipynb as a state machine.   *)
(*                                                                         *)
(* The notebook is a list of code cells run top to bottom in one Jupyter   *)
(* kernel.  A cell is a list of statements; a statement is plain Python    *)
(* ("py"), the construction of an SDK object ("new"), or an operation of   *)
(* an external service or SDK ("op").  Two statements have inner control   *)
(* flow and get their own actions: overall_chain.run (the library's        *)
(* SimpleSequentialChain loop) and run_agent (defined in the last cell).   *)
(* Import statements are taken to succeed and bind nothing the model       *)
(* tracks, except "import os", which a later cell depends on.              *)
(*                                                                         *)
(* Python evaluates the names and subscripts of a statement before the     *)
(* call it makes: an unbound name raises NameError and a variable missing  *)
(* from os.environ raises KeyError with the call not made.  No cell has a  *)
(* try statement, so an exception ends the cell it is raised in.  What the *)
(* SDKs and services do is open: a constructor or an operation either      *)
(* returns or raises.                                                      *)
(*                                                                         *)
(* Three names are read and bound by no cell: chain_two, embeddings and    *)
(* llm_chain.  The kernel starts with any subset of them bound; the fresh  *)
(* kernel has none.                                                        *)
(***************************************************************************)
EXTENDS Integers, Sequences, FiniteSets, TLC

\* ------------------------------------------------------------------------
\* Text: a Python str is a sequence of one-character strings.
\* ------------------------------------------------------------------------

Upper == <<"A","B","C","D","E","F","G","H","I","J","K","L","M",
           "N","O","P","Q","R","S","T","U","V","W","X","Y","Z">>

Lower == <<"a","b","c","d","e","f","g","h","i","j","k","l","m",
           "n","o","p","q","r","s","t","u","v","w","x","y","z">>

\* str.lower() on one character
LowerChar(c) ==
    IF \E i \in 1..26 : Upper[i] = c
    THEN Lower[CHOOSE i \in 1..26 : Upper[i] = c]
    ELSE c

\* input_text.lower()
lower(s) == [i \in 1..Len(s) |-> LowerChar(s[i])]

\* Python's  sub in s  for str operands
Contains(sub, s) ==
    \E i \in 1..(Len(s) - Len(sub) + 1) : SubSeq(s, i, i + Len(sub) - 1) = sub

\* the literal "calculate" of run_agent
keyword == <<"c","a","l","c","u","l","a","t","e">>

\* the literal assigned to command
command == <<"C","a","l","c","u","l","a","t","e"," ","t","h","e"," ",
             "s","q","u","a","r","e"," ","o","f"," ","7">>

\* ------------------------------------------------------------------------
\* The notebook's code cells
\* ------------------------------------------------------------------------

Stmt(line, kind, op, reads, env, binds) ==
    [line |-> line, kind |-> kind, op |-> op,
     reads |-> reads, env |-> env, binds |-> binds]

cell_a4187497 ==
    << Stmt(59, "op", "load_dotenv", {}, "", {}) >>

cell_d07dba39 ==
    << Stmt(81, "py", "import os", {}, "", {"os"}),
       Stmt(83, "op", "genai.configure", {"os"}, "GOOGLE_API_KEY", {}) >>

cell_9876a582 ==
    << Stmt(105, "new", "ChatGoogleGenerativeAI", {}, "", {"llm"}),
       Stmt(106, "op", "llm.invoke", {"llm"}, "", {}) >>

cell_e976e576 ==
    << Stmt(126, "py", "messages", {}, "", {"messages"}),
       Stmt(130, "op", "llm.invoke", {"llm", "messages"}, "", {"ai_msg"}),
       Stmt(132, "py", "print", {"ai_msg"}, "", {}) >>

cell_a17bf2ee ==
    << Stmt(154, "new", "ChatPromptTemplate.from_messages", {}, "", {"prompt"}),
       Stmt(161, "py", "prompt | llm", {"prompt", "llm"}, "", {"chain"}),
       Stmt(162, "op", "chain.invoke", {"chain"}, "", {}) >>

cell_4bef8583 ==
    << Stmt(183, "new", "LLMChain", {"llm", "prompt"}, "", {"chain"}),
       Stmt(185, "op", "chain.run", {"chain"}, "", {}) >>

cell_fa201bab ==
    << Stmt(206, "new", "SimpleSequentialChain", {"chain", "chain_two"}, "",
            {"overall_chain"}),
       Stmt(208, "seq", "overall_chain.run", {"overall_chain"}, "",
            {"explanation"}),
       Stmt(209, "py", "print", {"explanation"}, "", {}) >>

cell_d6d4019d ==
    << Stmt(231, "new", "RecursiveCharacterTextSplitter", {}, "",
            {"text_splitter"}),
       Stmt(232, "op", "text_splitter.create_documents",
            {"text_splitter", "explanation"}, "", {"texts"}) >>

cell_761be273 ==
    << Stmt(255, "new", "Pinecone", {"os"}, "PINECONE_API_KEY", {"pc"}),
       Stmt(256, "py", "index_name", {}, "", {"index_name"}),
       Stmt(257, "op", "pc.Index", {"pc", "index_name"}, "", {"index"}),
       Stmt(258, "new", "PineconeVectorStore", {"index", "embeddings"}, "",
            {"vector_store"}),
       Stmt(260, "op", "vector_store.add_documents",
            {"vector_store", "texts"}, "", {}) >>

\* the similarity-search cell without the embed_query call
cell_fab0d182_search_only ==
    << Stmt(280, "py", "query", {}, "", {"query"}),
       Stmt(282, "op", "vector_store.similarity_search",
            {"vector_store", "query"}, "", {"result"}),
       Stmt(284, "py", "print", {"result"}, "", {}) >>

cell_fab0d182 ==
    << Stmt(280, "py", "query", {}, "", {"query"}),
       Stmt(281, "op", "embeddings.embed_query", {"embeddings", "query"}, "",
            {"query_embedding"}),
       Stmt(282, "op", "vector_store.similarity_search",
            {"vector_store", "query"}, "", {"result"}),
       Stmt(284, "py", "print", {"result"}, "", {}) >>

cell_4039609c ==
    << Stmt(310, "new", "ChatGoogleGenerativeAI", {}, "", {"llm"}),
       Stmt(311, "new", "PythonREPLTool", {}, "", {"python_repl"}),
       Stmt(313, "py", "def run_agent", {}, "", {"run_agent"}),
       Stmt(320, "py", "command", {}, "", {"command"}),
       Stmt(321, "agent", "run_agent", {"run_agent", "command"}, "",
            {"result"}),
       Stmt(322, "py", "print", {"result"}, "", {}) >>

Cells ==
    << cell_a4187497, cell_d07dba39, cell_9876a582, cell_e976e576,
       cell_a17bf2ee, cell_4bef8583, cell_fa201bab, cell_d6d4019d,
       cell_761be273, cell_fab0d182, cell_4039609c >>

NCells == Len(Cells)

\* the variables of README.md's .env file
EnvVars == {"GOOGLE_API_KEY", "PINECONE_ENV", "PINECONE_API_KEY"}

\* names the code reads and no cell binds; a fresh kernel has none of them,
\* a kernel that ran other code before may hold any of them
PriorNames == {"chain_two", "embeddings", "llm_chain"}

NoValue == << >>

\* ------------------------------------------------------------------------
\* RecursiveCharacterTextSplitter(chunk_size=100, chunk_overlap=0), every
\* other parameter at the library's default: separators "\n\n", "\n", " ",
\* "", keep_separator=True, strip_whitespace=True, length_function=len.
\* ------------------------------------------------------------------------

chunk_size == 100

chunk_overlap == 0

NL == "\n"

separators == << <<NL, NL>>, <<NL>>, <<" ">>, << >> >>

IsSpace(c) == c \in {" ", NL, "\t"}

RECURSIVE lstrip(_)
lstrip(s) ==
    IF s = << >> THEN s
    ELSE IF IsSpace(Head(s)) THEN lstrip(Tail(s)) ELSE s

RECURSIVE rstrip(_)
rstrip(s) ==
    IF s = << >> THEN s
    ELSE IF IsSpace(s[Len(s)]) THEN rstrip(SubSeq(s, 1, Len(s) - 1)) ELSE s

\* str.strip()
strip(s) == rstrip(lstrip(s))

\* index of the first occurrence of sep in s, 0 when none
FindSep(s, sep) ==
    LET At == {i \in 1..(Len(s) - Len(sep) + 1) : SubSeq(s, i, i + Len(sep) - 1) = sep}
    IN IF At = {} THEN 0 ELSE CHOOSE i \in At : \A j \in At : i <= j

\* re.split(sep, s): the pieces between the occurrences of sep
RECURSIVE re_split(_, _)
re_split(s, sep) ==
    LET p == FindSep(s, sep) IN
    IF p = 0 THEN << s >>
    ELSE << SubSeq(s, 1, p - 1) >> \o re_split(SubSeq(s, p + Len(sep), Len(s)), sep)

\* drop the empty strings of a list
RECURSIVE NonEmpty(_)
NonEmpty(l) ==
    IF l = << >> THEN << >>
    ELSE IF Head(l) = << >> THEN NonEmpty(Tail(l))
    ELSE << Head(l) >> \o NonEmpty(Tail(l))

\* _split_text_with_regex with keep_separator=True: each separator stays at
\* the start of the piece that follows it; separator "" gives list(text)
split_text_with_regex(text, sep) ==
    IF sep = << >>
    THEN [i \in 1..Len(text) |-> << text[i] >>]
    ELSE LET P == re_split(text, sep) IN
         NonEmpty([i \in 1..Len(P) |-> IF i = 1 THEN P[1] ELSE sep \o P[i]])

\* separator.join(docs[i..j]), halving the range
RECURSIVE JoinRange(_, _, _, _)
JoinRange(docs, i, j, sep) ==
    IF i > j THEN << >>
    ELSE IF i = j THEN docs[i]
    ELSE LET m == (i + j) \div 2 IN
         JoinRange(docs, i, m, sep) \o sep \o JoinRange(docs, m + 1, j, sep)

\* _join_docs: the joined and stripped text as a list of one chunk, or no
\* chunk when it is empty
join_docs(docs, sep) ==
    LET text == strip(JoinRange(docs, 1, Len(docs), sep)) IN
    IF text = << >> THEN << >> ELSE << text >>

\* len(separator.join(splits[i..j])), the value of total in _merge_splits
\* when current_doc is splits[i..j]
RECURSIVE Total(_, _, _, _)
Total(splits, i, j, seplen) ==
    IF i > j THEN 0
    ELSE IF i = j THEN Len(splits[i])
    ELSE LET m == (i + j) \div 2 IN
         Total(splits, i, m, seplen) + seplen + Total(splits, m + 1, j, seplen)

\* The for loop of _merge_splits from piece i on, with current_doc empty.
\* With chunk_overlap = 0 and no empty piece, the while loop that follows a
\* flush (total > chunk_overlap) drops every piece of current_doc, so each
\* pass of the loop between two flushes collects splits[i..j] for the
\* largest j whose total does not exceed chunk_size (one piece at least).
RECURSIVE MergeLoop(_, _, _, _)
MergeLoop(splits, i, sep, docs) ==
    IF i > Len(splits) THEN docs
    ELSE
      LET last == IF Len(splits) < i + chunk_size THEN Len(splits) ELSE i + chunk_size
          Fits(j) == j = i \/ Total(splits, i, j, Len(sep)) <= chunk_size
          j == CHOOSE k \in i..last :
                   Fits(k) /\ (k = Len(splits) \/ ~Fits(k + 1))
      IN MergeLoop(splits, j + 1, sep, docs \o join_docs(SubSeq(splits, i, j), sep))

merge_splits(splits, sep) == MergeLoop(splits, 1, sep, << >>)

\* the for loop of _split_text that picks the separator: the first one that
\* is "" or occurs in the text, and the separators left for the pieces
RECURSIVE PickSeparator(_, _, _)
PickSeparator(text, seps, i) ==
    IF i > Len(seps) THEN [sep |-> seps[Len(seps)], rest |-> << >>]
    ELSE IF seps[i] = << >> THEN [sep |-> << >>, rest |-> << >>]
    ELSE IF FindSep(text, seps[i]) # 0
         THEN [sep |-> seps[i], rest |-> SubSeq(seps, i + 1, Len(seps))]
    ELSE PickSeparator(text, seps, i + 1)

RECURSIVE split_text_rec(_, _)
RECURSIVE SplitLoop(_, _, _, _)

\* The second for loop of _split_text from piece i on, with _good_splits
\* empty: a run of pieces shorter than chunk_size is collected and merged
\* when a longer piece or the end follows; a piece that is not shorter is
\* split again with the separators left.
SplitLoop(splits, i, final, rest) ==
    IF i > Len(splits) THEN final
    ELSE IF Len(splits[i]) < chunk_size
    THEN LET j == CHOOSE k \in i..Len(splits) :
                      /\ \A m \in i..k : Len(splits[m]) < chunk_size
                      /\ (k = Len(splits) \/ Len(splits[k + 1]) >= chunk_size)
         IN SplitLoop(splits, j + 1,
                      final \o merge_splits(SubSeq(splits, i, j), << >>), rest)
    ELSE SplitLoop(splits, i + 1,
                   final \o (IF rest = << >> THEN << splits[i] >>
                             ELSE split_text_rec(splits[i], rest)),
                   rest)

\* RecursiveCharacterTextSplitter._split_text
split_text_rec(text, seps) ==
    LET pick == PickSeparator(text, seps, 1) IN
    SplitLoop(split_text_with_regex(text, pick.sep), 1, << >>, pick.rest)

\* create_documents with a separator list that lacks the final ""
create_documents_no_char_fallback(text) ==
    split_text_rec(text, << <<NL, NL>>, <<NL>>, <<" ">> >>)

\* text_splitter.create_documents([text]): one document per chunk
create_documents(text) == split_text_rec(text, separators)

\* n copies of the character c
Rep(c, n) == [i \in 1..n |-> c]

\* ------------------------------------------------------------------------
\* State
\* ------------------------------------------------------------------------

VARIABLES
    dotenv,       \* variables the .env file sets
    environ,      \* variables set in os.environ
    kernel,       \* names bound in the kernel's namespace
    stopOnError,  \* the front end stops at the first failing cell (Run All)
                  \* or goes on with the next cell (cell by cell)
    cell,         \* index of the code cell being run, NCells + 1 at the end
    stmt,         \* index of the cell's next statement
    err,          \* exception that ended the cell, "" when none
    inflight,     \* calls issued and not yet returned
    configured,   \* genai.configure stored the key in the SDK's global state
    explanation,  \* values of the names the model needs the values of
    texts,
    result,
    seq_i,        \* SimpleSequentialChain._call: chains already run
    seq_input,    \* SimpleSequentialChain._call: _input
    apc,          \* position in run_agent
    input_text,   \* run_agent's parameter and locals
    response,
    python_result,
    ret,          \* value run_agent returned
    \* history, read by the properties only
    produced,     \* names bound by the statements run so far
    envRead,      \* variables looked up in os.environ so far
    callsInCell,  \* calls the code of the current cell has made (the run
                  \* of the sequential chain counts once)
    lastIssued,   \* site of the last operation issued
    seq_args,     \* inputs given to the chains of the sequential chain
    seq_outs,     \* outputs of the chains of the sequential chain
    ncalls,       \* calls of run_agent so far
    chainCalls,   \* llm_chain.run calls in this call of run_agent
    replCalls,    \* python_repl.run calls in this call of run_agent
    replArg,      \* what the last python_repl.run was given
    taken         \* [input, response, repl] of each branch test so far

vars == << dotenv, environ, kernel, stopOnError, cell, stmt, err, inflight,
           configured, explanation, texts, result, seq_i, seq_input,
           apc, input_text, response, python_result, ret,
           produced, envRead, callsInCell, lastIssued, seq_args, seq_outs,
           ncalls, chainCalls, replCalls, replArg, taken >>

flowVars  == << cell, stmt >>
seqVars   == << seq_i, seq_input, seq_args, seq_outs >>
agentVars == << apc, input_text, response, python_result, ret,
                ncalls, chainCalls, replCalls, replArg, taken >>
valVars   == << explanation, texts, result >>
cfgVars   == << dotenv, stopOnError >>

\* ------------------------------------------------------------------------
\* What the external services may answer
\* ------------------------------------------------------------------------

\* texts a model call may return
Responses ==
    { <<"p","r","i","n","t","(","7","*","*","2",")">>,
      Rep("x", 60) \o <<" ">> \o Rep("y", 60) }

\* strings python_repl.run may return
ReplOutputs == { <<"4","9",NL>>, << >> }

\* the literal passed to overall_chain.run
autoencoder == <<"a","u","t","o","e","n","c","o","d","e","r">>

\* ------------------------------------------------------------------------
\* Running a cell
\* ------------------------------------------------------------------------

InCell == cell <= NCells

CurStmt == Cells[cell][stmt]

\* the interpreter is about to run the next statement of the cell: no
\* exception has ended the cell, no call is pending, run_agent is not active
Ready ==
    /\ InCell
    /\ stmt <= Len(Cells[cell])
    /\ err = ""
    /\ inflight = {}
    /\ apc = "idle"
    /\ seq_i = 0

Resolved(s) == s.reads \subseteq kernel

\* a lookup that yields None for a variable that is not set (os.environ.get)
EnvOk_lenient(s) == TRUE

EnvOk(s) == s.env = "" \/ s.env \in environ

EnvOf(s) == IF s.env = "" THEN {} ELSE {s.env}

\* site of a call: cell, statement, call of run_agent, call within the statement
Site(k) == [cell |-> cell, stmt |-> stmt, n |-> ncalls, k |-> k, op |-> CurStmt.op]

NoSite == [cell |-> 0, stmt |-> 0, n |-> 0, k |-> 0, op |-> ""]

\* a name lookup or subscript that fails raises; nothing catches it, so the
\* cell ends there
Raise(e) == err' = e

\* the statement's targets are bound
Bind(names) ==
    /\ kernel' = kernel \cup names
    /\ produced' = produced \cup names

\* a plain Python statement
ExecPy ==
    /\ Ready
    /\ CurStmt.kind = "py"
    /\ Resolved(CurStmt)
    /\ Bind(CurStmt.binds)
    /\ stmt' = stmt + 1
    /\ UNCHANGED << cfgVars, environ, cell, err, inflight, configured, valVars,
                    seqVars, agentVars, envRead, callsInCell, lastIssued >>

\* a name of the statement is not bound: NameError
RaiseNameError ==
    /\ Ready
    /\ ~Resolved(CurStmt)
    /\ Raise("NameError")
    /\ UNCHANGED << cfgVars, environ, kernel, flowVars, inflight, configured,
                    valVars, seqVars, agentVars, produced, envRead,
                    callsInCell, lastIssued >>

\* os.environ[...] of a variable that is not set: KeyError
RaiseKeyError ==
    /\ Ready
    /\ Resolved(CurStmt)
    /\ ~EnvOk(CurStmt)
    /\ Raise("KeyError")
    /\ envRead' = envRead \cup EnvOf(CurStmt)
    /\ UNCHANGED << cfgVars, environ, kernel, flowVars, inflight, configured,
                    valVars, seqVars, agentVars, produced, callsInCell,
                    lastIssued >>

\* an SDK object is constructed and bound
Construct ==
    /\ Ready
    /\ CurStmt.kind = "new"
    /\ Resolved(CurStmt)
    /\ EnvOk(CurStmt)
    /\ Bind(CurStmt.binds)
    /\ envRead' = envRead \cup EnvOf(CurStmt)
    /\ stmt' = stmt + 1
    /\ UNCHANGED << cfgVars, environ, cell, err, inflight, configured, valVars,
                    seqVars, agentVars, callsInCell, lastIssued >>

\* the SDK's constructor raises
ConstructRaises ==
    /\ Ready
    /\ CurStmt.kind = "new"
    /\ Resolved(CurStmt)
    /\ EnvOk(CurStmt)
    /\ Raise("SdkError")
    /\ envRead' = envRead \cup EnvOf(CurStmt)
    /\ UNCHANGED << cfgVars, environ, kernel, flowVars, inflight, configured,
                    valVars, seqVars, agentVars, produced, callsInCell,
                    lastIssued >>

\* a call is issued; the interpreter blocks until it returns or raises
Issue(site) ==
    /\ inflight' = inflight \cup {site}
    /\ lastIssued' = site

\* an operation of an external service or SDK is called
IssueOp ==
    /\ Ready
    /\ CurStmt.kind = "op"
    /\ Resolved(CurStmt)
    /\ EnvOk(CurStmt)
    /\ Issue(Site(1))
    /\ callsInCell' = callsInCell + 1
    /\ envRead' = envRead \cup EnvOf(CurStmt)
    /\ UNCHANGED << cfgVars, environ, kernel, flowVars, err, configured,
                    valVars, seqVars, agentVars, produced >>

\* the operation returns and the statement completes
OpReturns ==
    /\ InCell
    /\ stmt <= Len(Cells[cell])
    /\ CurStmt.kind = "op"
    /\ inflight # {}
    /\ inflight' = {}
    /\ environ' = IF CurStmt.op = "load_dotenv" THEN environ \cup dotenv ELSE environ
    /\ configured' = (configured \/ CurStmt.op = "genai.configure")
    /\ texts' = IF CurStmt.op = "text_splitter.create_documents"
                THEN create_documents(explanation) ELSE texts
    /\ Bind(CurStmt.binds)
    /\ stmt' = stmt + 1
    /\ UNCHANGED << cfgVars, cell, err, explanation, result, seqVars,
                    agentVars, envRead, callsInCell, lastIssued >>

\* run_agent catches the exception of the model call and goes on
CallRaises_caught ==
    /\ inflight # {}
    /\ inflight' = {}
    /\ IF apc = "314w"
       THEN apc' = "315" /\ err' = err
       ELSE Raise("SdkError") /\ apc' = IF apc = "idle" THEN "idle" ELSE "raised"
    /\ UNCHANGED << cfgVars, environ, kernel, flowVars, configured, valVars,
                    seqVars, input_text, response, python_result, ret,
                    produced, envRead, callsInCell, lastIssued,
                    ncalls, chainCalls, replCalls, replArg, taken >>

\* the failed call is dropped and the statement runs again
CallRaises_retry ==
    /\ inflight # {}
    /\ inflight' = {}
    /\ apc' = IF apc = "314w" THEN "314" ELSE IF apc = "316w" THEN "316" ELSE apc
    /\ UNCHANGED << cfgVars, environ, kernel, flowVars, err, configured,
                    valVars, seqVars, input_text, response, python_result, ret,
                    produced, envRead, callsInCell, lastIssued,
                    ncalls, chainCalls, replCalls, replArg, taken >>

\* the call in flight raises; no frame between the call and the cell has a
\* handler, so the exception ends run_agent (when active) and the cell
CallRaises ==
    /\ inflight # {}
    /\ inflight' = {}
    /\ Raise("SdkError")
    /\ apc' = IF apc = "idle" THEN "idle" ELSE "raised"
    /\ UNCHANGED << cfgVars, environ, kernel, flowVars, configured, valVars,
                    seqVars, input_text, response, python_result, ret,
                    produced, envRead, callsInCell, lastIssued,
                    ncalls, chainCalls, replCalls, replArg, taken >>

\* the cell is over (its last statement ran, or an exception ended it and
\* the front end goes on): the next cell starts
NextCell ==
    /\ InCell
    /\ inflight = {}
    /\ \/ err = "" /\ stmt > Len(Cells[cell])
       \/ err # "" /\ ~stopOnError
    /\ cell' = cell + 1
    /\ stmt' = 1
    /\ err' = ""
    /\ callsInCell' = 0
    /\ seq_i' = 0
    /\ apc' = "idle"
    /\ UNCHANGED << cfgVars, environ, kernel, inflight, configured, valVars,
                    seq_input, seq_args, seq_outs, input_text, response,
                    python_result, ret, produced, envRead, lastIssued,
                    ncalls, chainCalls, replCalls, replArg, taken >>

\* ------------------------------------------------------------------------
\* explanation = overall_chain.run("autoencoder"): SimpleSequentialChain
\* runs its chains in list order, each on the output of the one before, and
\* returns the last output
\* ------------------------------------------------------------------------

\* chains=[chain, chain_two]
chains == << "chain.run", "chain_two.run" >>

\* the loop calls the next chain with _input
SeqIssue ==
    /\ InCell
    /\ stmt <= Len(Cells[cell])
    /\ CurStmt.kind = "seq"
    /\ Resolved(CurStmt)
    /\ err = ""
    /\ inflight = {}
    /\ seq_i < Len(chains)
    /\ LET input == IF seq_i = 0 THEN autoencoder ELSE seq_input IN
       /\ seq_input' = input
       /\ seq_args' = Append(seq_args, input)
    /\ Issue([Site(seq_i + 1) EXCEPT !.op = chains[seq_i + 1]])
    /\ callsInCell' = IF seq_i = 0 THEN callsInCell + 1 ELSE callsInCell
    /\ UNCHANGED << cfgVars, environ, kernel, flowVars, err, configured,
                    valVars, seq_i, seq_outs, agentVars, produced, envRead >>

\* the chain returns o: it is the next chain's input, or, after the last
\* chain, the value of run, which the statement assigns to explanation
SeqChainReturns(o) ==
    /\ InCell
    /\ stmt <= Len(Cells[cell])
    /\ CurStmt.kind = "seq"
    /\ inflight # {}
    /\ inflight' = {}
    /\ seq_input' = o
    /\ seq_outs' = Append(seq_outs, o)
    /\ IF seq_i + 1 < Len(chains)
       THEN /\ seq_i' = seq_i + 1
            /\ UNCHANGED << kernel, produced, explanation, stmt >>
       ELSE /\ seq_i' = 0
            /\ explanation' = o
            /\ Bind(CurStmt.binds)
            /\ stmt' = stmt + 1
    /\ UNCHANGED << cfgVars, environ, cell, err, configured, texts, result,
                    seq_args, agentVars, envRead, callsInCell, lastIssued >>

\* ------------------------------------------------------------------------
\* run_agent
\* ------------------------------------------------------------------------

\* a call of run_agent starts with input_text = t
BeginCall(t) ==
    /\ apc' = "314"
    /\ input_text' = t
    /\ response' = NoValue
    /\ python_result' = NoValue
    /\ ret' = NoValue
    /\ ncalls' = ncalls + 1
    /\ chainCalls' = 0
    /\ replCalls' = 0
    /\ replArg' = NoValue

\* result = run_agent(command)
EnterRunAgent ==
    /\ Ready
    /\ CurStmt.kind = "agent"
    /\ Resolved(CurStmt)
    /\ BeginCall(command)
    /\ UNCHANGED << cfgVars, environ, kernel, flowVars, err, inflight,
                    configured, valVars, seqVars, taken, produced, envRead,
                    callsInCell, lastIssued >>

\* the test without .lower()
HasKeyword_case_sensitive(t) == Contains(keyword, t)

\* the test of line 315
HasKeyword(t) == Contains(keyword, lower(t))

\* response = llm_chain.run(input_text), the call
run_agent_314 ==
    /\ apc = "314"
    /\ "llm_chain" \in kernel
    /\ apc' = "314w"
    /\ chainCalls' = chainCalls + 1
    /\ Issue([Site(1) EXCEPT !.op = "llm_chain.run"])
    /\ callsInCell' = callsInCell + 1
    /\ UNCHANGED << cfgVars, environ, kernel, flowVars, err, configured,
                    valVars, seqVars, input_text, response, python_result,
                    ret, ncalls, replCalls, replArg, taken, produced, envRead >>

\* response = llm_chain.run(input_text), llm_chain not bound
run_agent_314_NameError ==
    /\ apc = "314"
    /\ "llm_chain" \notin kernel
    /\ apc' = "raised"
    /\ Raise("NameError")
    /\ UNCHANGED << cfgVars, environ, kernel, flowVars, inflight, configured,
                    valVars, seqVars, input_text, response, python_result,
                    ret, ncalls, chainCalls, replCalls, replArg, taken,
                    produced, envRead, callsInCell, lastIssued >>

\* response = llm_chain.run(input_text), the call returns r
run_agent_314_returns(r) ==
    /\ apc = "314w"
    /\ inflight # {}
    /\ inflight' = {}
    /\ response' = r
    /\ apc' = "315"
    /\ UNCHANGED << cfgVars, environ, kernel, flowVars, err, configured,
                    valVars, seqVars, input_text, python_result, ret, ncalls,
                    chainCalls, replCalls, replArg, taken, produced, envRead,
                    callsInCell, lastIssued >>

\* if "calculate" in input_text.lower():
run_agent_315 ==
    /\ apc = "315"
    /\ apc' = IF HasKeyword(input_text) THEN "316" ELSE "318"
    /\ taken' = taken \cup {[input |-> input_text, response |-> response,
                             repl |-> HasKeyword(input_text)]}
    /\ UNCHANGED << cfgVars, environ, kernel, flowVars, err, inflight,
                    configured, valVars, seqVars, input_text, response,
                    python_result, ret, ncalls, chainCalls, replCalls,
                    replArg, produced, envRead, callsInCell, lastIssued >>

\* python_result = python_repl.run(response), the call
run_agent_316 ==
    /\ apc = "316"
    /\ "python_repl" \in kernel
    /\ apc' = "316w"
    /\ replCalls' = replCalls + 1
    /\ replArg' = response
    /\ Issue([Site(2) EXCEPT !.op = "python_repl.run"])
    /\ callsInCell' = callsInCell + 1
    /\ UNCHANGED << cfgVars, environ, kernel, flowVars, err, configured,
                    valVars, seqVars, input_text, response, python_result,
                    ret, ncalls, chainCalls, taken, produced, envRead >>

\* python_result = python_repl.run(response), the call returns v
run_agent_316_returns(v) ==
    /\ apc = "316w"
    /\ inflight # {}
    /\ inflight' = {}
    /\ python_result' = v
    /\ apc' = "317"
    /\ UNCHANGED << cfgVars, environ, kernel, flowVars, err, configured,
                    valVars, seqVars, input_text, response, ret, ncalls,
                    chainCalls, replCalls, replArg, taken, produced, envRead,
                    callsInCell, lastIssued >>

\* the keyword branch returns the model's response
run_agent_317_returns_response ==
    /\ apc = "317"
    /\ ret' = response
    /\ apc' = "returned"
    /\ UNCHANGED << cfgVars, environ, kernel, flowVars, err, inflight,
                    configured, valVars, seqVars, input_text, response,
                    python_result, ncalls, chainCalls, replCalls, replArg,
                    taken, produced, envRead, callsInCell, lastIssued >>

\* return python_result
run_agent_317 ==
    /\ apc = "317"
    /\ ret' = python_result
    /\ apc' = "returned"
    /\ UNCHANGED << cfgVars, environ, kernel, flowVars, err, inflight,
                    configured, valVars, seqVars, input_text, response,
                    python_result, ncalls, chainCalls, replCalls, replArg,
                    taken, produced, envRead, callsInCell, lastIssued >>

\* return response
run_agent_318 ==
    /\ apc = "318"
    /\ ret' = response
    /\ apc' = "returned"
    /\ UNCHANGED << cfgVars, environ, kernel, flowVars, err, inflight,
                    configured, valVars, seqVars, input_text, response,
                    python_result, ncalls, chainCalls, replCalls, replArg,
                    taken, produced, envRead, callsInCell, lastIssued >>

\* result = run_agent(command), the assignment
FinishRunAgent ==
    /\ InCell
    /\ stmt <= Len(Cells[cell])
    /\ CurStmt.kind = "agent"
    /\ apc = "returned"
    /\ apc' = "idle"
    /\ result' = ret
    /\ Bind(CurStmt.binds)
    /\ stmt' = stmt + 1
    /\ UNCHANGED << cfgVars, environ, cell, err, inflight, configured,
                    explanation, texts, seqVars, input_text, response,
                    python_result, ret, ncalls, chainCalls, replCalls,
                    replArg, taken, envRead, callsInCell, lastIssued >>

\* ------------------------------------------------------------------------
\* The notebook, run top to bottom
\* ------------------------------------------------------------------------

Init ==
    /\ dotenv \in SUBSET EnvVars
    /\ environ = {}
    /\ kernel \in SUBSET PriorNames
    /\ stopOnError \in BOOLEAN
    /\ cell = 1
    /\ stmt = 1
    /\ err = ""
    /\ inflight = {}
    /\ configured = FALSE
    /\ explanation = NoValue
    /\ texts = NoValue
    /\ result = NoValue
    /\ seq_i = 0
    /\ seq_input = NoValue
    /\ apc = "idle"
    /\ input_text = NoValue
    /\ response = NoValue
    /\ python_result = NoValue
    /\ ret = NoValue
    /\ produced = {}
    /\ envRead = {}
    /\ callsInCell = 0
    /\ lastIssued = NoSite
    /\ seq_args = << >>
    /\ seq_outs = << >>
    /\ ncalls = 0
    /\ chainCalls = 0
    /\ replCalls = 0
    /\ replArg = NoValue
    /\ taken = {}

\* The one call of run_agent has the keyword in its input, so "return
\* response" (line 318) is not among the steps of the notebook's run.
Next ==
    \/ ExecPy
    \/ RaiseNameError
    \/ RaiseKeyError
    \/ Construct
    \/ ConstructRaises
    \/ IssueOp
    \/ OpReturns
    \/ NextCell
    \/ SeqIssue
    \/ \E o \in Responses : SeqChainReturns(o)
    \/ EnterRunAgent
    \/ run_agent_314
    \/ run_agent_314_NameError
    \/ \E r \in Responses : run_agent_314_returns(r)
    \/ run_agent_315
    \/ run_agent_316
    \/ \E v \in ReplOutputs : run_agent_316_returns(v)
    \/ run_agent_317
    \/ FinishRunAgent
    \/ CallRaises

Spec == Init /\ [][Next]_vars

\* ------------------------------------------------------------------------
\* run_agent called on any input, in the kernel as the last cell leaves it
\* ------------------------------------------------------------------------

MaxCalls == 2

Inputs ==
    { command,
      <<"c","a","l","c","u","l","a","t","e">>,
      <<"C","a","l","c","u","l","a","t","e">>,
      <<"C","A","L","C","U","L","A","T","E">>,
      <<"R","e","c","a","l","c","u","l","a","t","e","d">>,
      <<"c","a","l","c"," ","u","l","a","t","e">>,
      <<"W","h","a","t"," ","i","s"," ","7","*","7","?">>,
      <<"w","h","a","t"," ","i","s"," ","7","*","7","?">>,
      << >> }

\* run_agent(t), called at top level once the previous call is over
CallRunAgent(t) ==
    /\ InCell
    /\ stmt <= Len(Cells[cell])
    /\ CurStmt.kind = "agent"
    /\ Resolved(CurStmt)
    /\ apc \in {"idle", "returned", "raised"}
    /\ inflight = {}
    /\ ncalls < MaxCalls
    /\ err' = ""
    /\ callsInCell' = 0
    /\ BeginCall(t)
    /\ UNCHANGED << cfgVars, environ, kernel, flowVars, inflight, configured,
                    valVars, seqVars, taken, produced, envRead, lastIssued >>

InitAgent ==
    /\ dotenv = EnvVars
    /\ environ = EnvVars
    /\ \E P \in SUBSET {"llm_chain"} :
          kernel = {"os", "llm", "python_repl", "run_agent", "command"} \cup P
    /\ stopOnError = FALSE
    /\ cell = NCells
    /\ stmt = 5
    /\ err = ""
    /\ inflight = {}
    /\ configured = TRUE
    /\ explanation = NoValue
    /\ texts = NoValue
    /\ result = NoValue
    /\ seq_i = 0
    /\ seq_input = NoValue
    /\ apc = "idle"
    /\ input_text = NoValue
    /\ response = NoValue
    /\ python_result = NoValue
    /\ ret = NoValue
    /\ produced = {"os", "llm", "python_repl", "run_agent", "command"}
    /\ envRead = {}
    /\ callsInCell = 0
    /\ lastIssued = NoSite
    /\ seq_args = << >>
    /\ seq_outs = << >>
    /\ ncalls = 0
    /\ chainCalls = 0
    /\ replCalls = 0
    /\ replArg = NoValue
    /\ taken = {}

NextAgent ==
    \/ \E t \in Inputs : CallRunAgent(t)
    \/ run_agent_314
    \/ run_agent_314_NameError
    \/ \E r \in Responses : run_agent_314_returns(r)
    \/ run_agent_315
    \/ run_agent_316
    \/ \E v \in ReplOutputs : run_agent_316_returns(v)
    \/ run_agent_317
    \/ run_agent_318
    \/ CallRaises

SpecAgent == InitAgent /\ [][NextAgent]_vars

\* ------------------------------------------------------------------------
\* The splitting cell on any explanation
\* ------------------------------------------------------------------------

MaxWords == 2

WordLens == {0, 1, 40, 60, 100, 101}

Gaps == { <<" ">>, <<NL>>, <<NL, NL>> }

\* texts of k words (runs of one letter) with a gap between two words
RECURSIVE TextsOf(_)
TextsOf(k) ==
    IF k = 1 THEN { Rep("a", n) : n \in WordLens }
    ELSE { t \o g \o Rep("a", n) : t \in TextsOf(k - 1), g \in Gaps, n \in WordLens }

SplitTexts == UNION { TextsOf(k) : k \in 1..MaxWords }

InitSplit ==
    /\ dotenv = EnvVars
    /\ environ = EnvVars
    /\ kernel = {"text_splitter", "explanation"}
    /\ stopOnError = FALSE
    /\ cell = 8
    /\ stmt = 2
    /\ err = ""
    /\ inflight = {}
    /\ configured = TRUE
    /\ explanation \in SplitTexts
    /\ texts = NoValue
    /\ result = NoValue
    /\ seq_i = 0
    /\ seq_input = NoValue
    /\ apc = "idle"
    /\ input_text = NoValue
    /\ response = NoValue
    /\ python_result = NoValue
    /\ ret = NoValue
    /\ produced = {"text_splitter", "explanation"}
    /\ envRead = {}
    /\ callsInCell = 0
    /\ lastIssued = NoSite
    /\ seq_args = << >>
    /\ seq_outs = << >>
    /\ ncalls = 0
    /\ chainCalls = 0
    /\ replCalls = 0
    /\ replArg = NoValue
    /\ taken = {}

NextSplit ==
    \/ IssueOp
    \/ OpReturns
    \/ CallRaises

SpecSplit == InitSplit /\ [][NextSplit]_vars

\* ------------------------------------------------------------------------
\* Properties
\* ------------------------------------------------------------------------

\* the cell ran to its end without an exception
CellDone == InCell /\ err = "" /\ stmt > Len(Cells[cell])

UpperOf(c) ==
    IF \E i \in 1..26 : Lower[i] = c
    THEN Upper[CHOOSE i \in 1..26 : Lower[i] = c]
    ELSE c

\* t has the letters of "calculate" in a row, each in either case
KeywordAnyCase(t) ==
    \E i \in 1..(Len(t) - Len(keyword) + 1) :
        \A k \in 1..Len(keyword) :
            t[i + k - 1] \in {keyword[k], UpperOf(keyword[k])}

\* a and b differ in the case of letters at most
SameUpToCase(a, b) ==
    /\ Len(a) = Len(b)
    /\ \A i \in 1..Len(a) :
          \/ a[i] = b[i]
          \/ \E k \in 1..26 : {a[i], b[i]} = {Upper[k], Lower[k]}

CeilDiv(n, d) == (n + d - 1) \div d

\* site a comes before site b in program order
Before(a, b) ==
    \/ a.cell < b.cell
    \/ a.cell = b.cell /\ a.stmt < b.stmt
    \/ a.cell = b.cell /\ a.stmt = b.stmt /\ a.n < b.n
    \/ a.cell = b.cell /\ a.stmt = b.stmt /\ a.n = b.n /\ a.k < b.k

C2_ErrorsPropagate ==
    /\ [](err # "" => inflight = {})
    /\ []((InCell /\ chainCalls = 1 /\ inflight = {} /\ response = NoValue)
            => (apc = "raised" /\ err # "" /\ replCalls = 0 /\ ret = NoValue))
    /\ [](err = "KeyError"
            => /\ callsInCell = 0
               /\ cell = 2 => ~configured
               /\ cell = 9 => "pc" \notin kernel)
    /\ [][err # "" =>
            /\ kernel' = kernel
            /\ environ' = environ
            /\ configured' = configured
            /\ inflight' = {}
            /\ lastIssued' = lastIssued
            /\ ret' = ret
            /\ result' = result
            /\ cell' = cell => (stmt' = stmt /\ err' = err)]_vars

\* the model call of run_agent failed and the call of run_agent ended there
C2_Witness ==
    /\ InCell
    /\ apc = "raised"
    /\ err = "SdkError"
    /\ chainCalls = 1
    /\ replCalls = 0

\* C3, as stated: in a run that stops at the first error, with the three
\* variables set, every step is reached (no step fails on a name or on a
\* variable) and every name a step reads was bound by an earlier step.
C3_Original ==
    (stopOnError /\ dotenv = EnvVars) =>
        /\ err \notin {"NameError", "KeyError"}
        /\ Ready => CurStmt.reads \subseteq produced
        /\ apc = "314" => "llm_chain" \in produced

\* C4, as stated: once the sequential-chain cell is over, in a run that
\* stops at the first error with the three variables set and no call failed, the sequential chain has called two chains, the first on the
\* input, the second on the first one's output, and explanation is the
\* second one's output.
C4_Original ==
    ( stopOnError /\ dotenv = EnvVars /\ cell = 7
      /\ (err = "NameError" \/ (err = "" /\ stmt > 2)) ) =>
        /\ Len(seq_args) = 2
        /\ Len(seq_outs) = 2
        /\ seq_args[1] = autoencoder
        /\ seq_args[2] = seq_outs[1]
        /\ explanation = seq_outs[2]

C8_OneCallAtATime ==
    /\ [](Cardinality(inflight) <= 1)
    /\ [][(inflight' # inflight /\ inflight' # {}) =>
            /\ inflight = {}
            /\ \A s \in inflight' : Before(lastIssued, s)]_vars

\* the REPL call is in flight, after the model call of the same run_agent
C8_Witness ==
    \E s \in inflight : s.k = 2 /\ s.op = "python_repl.run" /\ chainCalls = 1

\* C9, as stated: a call of run_agent that is over has invoked the model
\* chain exactly once; the REPL is run at most once, after the model chain
\* has returned, on the model's response itself.
C9_Original ==
    /\ apc \in {"returned", "raised"} => chainCalls = 1
    /\ replCalls <= 1
    /\ replCalls = 1 => (chainCalls = 1 /\ response # NoValue /\ replArg = response)

\* C10: two branch tests whose inputs are the same, or the same up to letter
\* case, take the same branch, whatever the model's responses were.
C10_BranchByInputOnly ==
    \A a, b \in taken : SameUpToCase(a.input, b.input) => a.repl = b.repl

\* two calls with inputs that differ in case only and different responses
\* both ran the REPL
C10_Witness ==
    \E a, b \in taken :
        /\ a.input # b.input
        /\ SameUpToCase(a.input, b.input)
        /\ a.response # b.response
        /\ a.repl /\ b.repl

====
